---- MODULE Spec2Model ----
(***************************************************************************)
(* Model of atoml/fpm_operations.py (do_sis, the order-2 expansions and    *)
(* fpmatrix_split) and of atoml/fingerprint/setup.py (FeatureGenerator).   *)
(* Each routine has its own specification over its own variables; the      *)
(* variables of the other routines are left alone.                         *)
(***************************************************************************)
EXTENDS Integers, Sequences, FiniteSets, TLC

\* ------------------------------------------------------------------ bounds
MaxCols == 3        \* widest feature matrix handed to do_sis
MaxSisRows == 2     \* most rows of the matrix handed to do_sis
MaxInc == 2         \* largest increment handed to do_sis
MaxLenX == 3        \* most rows of the matrix handed to fpmatrix_split
MaxSplit == 4       \* largest nsplit
MaxFix == 2         \* largest fix_size
MaxFeatures == 3    \* most columns of the matrix (labels) to expand
MaxExRows == 1      \* most rows of the matrix to expand
MaxPow == 2         \* largest a and b handed to get_order_2ab, get_ablog
MaxCandidates == 2  \* longest list of candidates handed to FeatureGenerator
MaxVecs == 3        \* longest vec_list handed to get_combined_descriptors

\* ---------------------------------------------------------------- state
\* do_sis
VARIABLES
  sis_args,    \* the arguments of the call: [m, rows, l, size, increment]
  sis_X,       \* X, as the sequence of original column numbers it still holds
  sis_l,       \* l: None or the label vector (labels named by position)
  sis_shape,   \* the local `shape` = <<rows, columns>>
  sis_size,    \* the local `size`
  sis_pc,      \* "enter", "loop", "returned", "raised"
  sis_err,     \* "none", "TypeError", "AssertionError", "OracleError"
  sis_calls    \* the calls made to sure_independence_screening, in order

sisVars == << sis_args, sis_X, sis_l, sis_shape, sis_size, sis_pc, sis_err,
              sis_calls >>

\* fpmatrix_split
VARIABLES
  sp_args,     \* [len, nsplit, fix_size, replacement, truediv]
  sp_index,    \* the list `index`
  sp_n,        \* n  (numerator over nsplit)
  sp_r,        \* r
  sp_s1,       \* s1 (numerator over nsplit)
  sp_s2,       \* s2 (numerator over nsplit)
  sp_dataset,  \* the list `dataset`: one sequence of rows per group
  sp_pc,       \* "enter", "loop", "returned", "raised"
  sp_shuffles  \* number of calls of shuffle(index) made so far

spVars == << sp_args, sp_index, sp_n, sp_r, sp_s1, sp_s2, sp_dataset, sp_pc,
             sp_shuffles >>

\* get_order_2, get_labels_order_2, get_order_2ab, get_ablog
VARIABLES
  ex_args,          \* [op, A, x, a, b]: the routine, self.X by columns,
                    \* self.x, and the arguments a and b
  ex_f1,            \* the outer loop variable f1
  ex_f2,            \* the inner loop variable f2
  ex_nfi,           \* the write index nfi
  ex_new_features,  \* new_features, by columns (a list for the labels)
  ex_written,       \* history: for each write, its index and its (f1, f2)
  ex_pc             \* "enter", "loop", "returned", "raised"

exVars == << ex_args, ex_f1, ex_f2, ex_nfi, ex_new_features, ex_written,
             ex_pc >>

\* FeatureGenerator: the cached fields and one caller's train and test lists
VARIABLES
  fg_atom_types,  \* self.atom_types: None or the list of atomic numbers
  fg_atom_len,    \* self.atom_len: None or an integer
  fg_train,       \* the caller's list of training candidates
  fg_test,        \* the caller's list of test candidates, or None
  fg_args,        \* the lists and fields at construction, and the vec_names
  fg_normalized,  \* history: normalize_features(train, test) has been called
  fg_matrix,      \* history: [train, test] -> None or the column count of
                  \* the last matrix return_vec made of it since then
  fg_err          \* the outcome of the last call: "none" or "TypeError"

fgVars == << fg_atom_types, fg_atom_len, fg_train, fg_test, fg_args,
             fg_normalized, fg_matrix, fg_err >>

\* get_combined_descriptors
VARIABLES
  cd_vec_list,    \* the argument vec_list, a list of callables
  cd_labels,      \* the local `labels`
  cd_j,           \* the loop variable j
  cd_L_F,         \* the local L_F: the outputs collected so far
  cd_invoked,     \* history: the positions of vec_list invoked, in order
  cd_result,      \* the returned array
  cd_pc           \* "enter", "loop", "returned", "raised"

cdVars == << cd_vec_list, cd_labels, cd_j, cd_L_F, cd_invoked, cd_result,
             cd_pc >>

vars == << sisVars, spVars, exVars, fgVars, cdVars >>

\* a routine that is not running in a specification holds no state
SisOff ==
  /\ sis_args = 0 /\ sis_X = 0 /\ sis_l = 0 /\ sis_shape = 0 /\ sis_size = 0
  /\ sis_pc = "off" /\ sis_err = 0 /\ sis_calls = 0

SplitOff ==
  /\ sp_args = 0 /\ sp_index = 0 /\ sp_n = 0 /\ sp_r = 0 /\ sp_s1 = 0
  /\ sp_s2 = 0 /\ sp_dataset = 0 /\ sp_pc = "off" /\ sp_shuffles = 0

ExpandOff ==
  /\ ex_args = 0 /\ ex_f1 = 0 /\ ex_f2 = 0 /\ ex_nfi = 0
  /\ ex_new_features = 0 /\ ex_written = 0 /\ ex_pc = "off"

FeaturesOff ==
  /\ fg_atom_types = 0 /\ fg_atom_len = 0 /\ fg_train = 0 /\ fg_test = 0
  /\ fg_args = 0 /\ fg_normalized = 0 /\ fg_matrix = 0 /\ fg_err = "off"

CombineOff ==
  /\ cd_vec_list = 0 /\ cd_labels = 0 /\ cd_j = 0 /\ cd_L_F = 0
  /\ cd_invoked = 0 /\ cd_result = 0 /\ cd_pc = "off"

notSis == << spVars, exVars, fgVars, cdVars >>
notSplit == << sisVars, exVars, fgVars, cdVars >>
notExpand == << sisVars, spVars, fgVars, cdVars >>
notFeatures == << sisVars, spVars, exVars, cdVars >>
notCombine == << sisVars, spVars, exVars, fgVars >>

\* ------------------------------------------------------- python's optionals
None == << >>
Some(v) == << v >>
IsNone(o) == o = << >>
Val(o) == o[1]

Min(a, b) == IF a <= b THEN a ELSE b
Max(a, b) == IF a >= b THEN a ELSE b

\* the sequences over 1..n of length k without a repeated entry
InjSeqs(n, k) ==
  IF k < 0 \/ k > n THEN {}
  ELSE {s \in [1..k -> 1..n] : \A i, j \in 1..k : i # j => s[i] # s[j]}

\* numpy's fancy index a[idx]
Take(a, idx) == [i \in 1..Len(idx) |-> a[idx[i]]]

Iota(n) == [i \in 1..n |-> i]

\* ================================================================= do_sis

\* sure_independence_screening(y, X, size)['accepted'] for an oracle that
\* returns exactly the requested number of column indices of X, in any
\* order.  A request it cannot meet (size < 0 or size > columns) has no
\* outcome: do_sis_iter then ends with the oracle's error.
sure_independence_screening(cols, size) == InjSeqs(cols, size)

SisInit ==
  /\ sis_args \in [m : 0..MaxCols, rows : 1..MaxSisRows,
                   l : {None} \cup {Some(Iota(k)) : k \in 0..MaxCols},
                   size : {None} \cup {Some(k) : k \in 0..MaxCols},
                   increment : 1..MaxInc]
  /\ sis_X = Iota(sis_args.m)
  /\ sis_l = sis_args.l
  /\ sis_shape = << 0, 0 >>
  /\ sis_size = sis_args.size
  /\ sis_pc = "enter"
  /\ sis_err = "none"
  /\ sis_calls = << >>

\* lines 31-34: shape, the assertion on len(l), the default of size
do_sis_enter ==
  /\ sis_pc = "enter"
  /\ sis_shape' = << sis_args.rows, Len(sis_X) >>
  /\ IF IsNone(sis_l)
       THEN \* len(None)
            /\ sis_pc' = "raised" /\ sis_err' = "TypeError"
            /\ UNCHANGED sis_size
       ELSE IF Len(sis_X) # Len(Val(sis_l))
         THEN /\ sis_pc' = "raised" /\ sis_err' = "AssertionError"
              /\ UNCHANGED sis_size
         ELSE /\ sis_pc' = "loop" /\ UNCHANGED sis_err
              /\ sis_size' = IF IsNone(sis_size) THEN Some(sis_args.rows)
                                                 ELSE sis_size
  /\ UNCHANGED << sis_args, sis_X, sis_l, sis_calls >>
  /\ UNCHANGED notSis

\* lines 35-40: one pass of the while loop
do_sis_iter ==
  /\ sis_pc = "loop"
  /\ sis_shape[2] > Val(sis_size)
  /\ LET cols == Len(sis_X)
         req == cols - sis_args.increment
         outcomes == sure_independence_screening(cols, req)
     IN /\ sis_shape' = << sis_args.rows, cols >>
        /\ sis_calls' = Append(sis_calls, [cols |-> cols, size |-> req])
        /\ IF outcomes = {}
             THEN /\ sis_pc' = "raised" /\ sis_err' = "OracleError"
                  /\ UNCHANGED << sis_X, sis_l >>
             ELSE \E accepted \in outcomes :
                    /\ sis_X' = Take(sis_X, accepted)
                    /\ sis_l' = IF IsNone(sis_l) THEN sis_l
                                ELSE Some(Take(Val(sis_l), accepted))
                    /\ UNCHANGED << sis_pc, sis_err >>
  /\ UNCHANGED << sis_args, sis_size >>
  /\ UNCHANGED notSis

\* line 41
do_sis_return ==
  /\ sis_pc = "loop"
  /\ ~(sis_shape[2] > Val(sis_size))
  /\ sis_pc' = "returned"
  /\ UNCHANGED << sis_args, sis_X, sis_l, sis_shape, sis_size, sis_err,
                  sis_calls >>
  /\ UNCHANGED notSis

SisNext == do_sis_enter \/ do_sis_iter \/ do_sis_return


\* ---------------------------------------------------------- do_sis claims
CeilDiv(a, b) == (a + b - 1) \div b

\* the call is within the claims' precondition: a label vector of X's width
SisLabelled == ~IsNone(sis_args.l) /\ Len(Val(sis_args.l)) = sis_args.m
\* the call is past its assertion and the oracle has honoured every request
SisEntered == sis_pc \in {"loop", "returned"}

\* C1: with labels of length m, target s < m and step k >= 1, do_sis never
\* calls the oracle when X already has at most s columns, and it returns a
\* matrix of width w with w <= s < w + k and a label vector of length w.
C1_StopsAtTarget ==
  (SisLabelled /\ SisEntered /\ Val(sis_size) < sis_args.m) =>
     /\ \A c \in 1..Len(sis_calls) : sis_calls[c].cols > Val(sis_size)
     /\ sis_pc = "returned" =>
          /\ Len(sis_X) <= Val(sis_size)
          /\ Val(sis_size) < Len(sis_X) + sis_args.increment
          /\ Len(Val(sis_l)) = Len(sis_X)

\* C2: do_sis makes at most ceil((m - s)/k) oracle calls, none when m <= s,
\* and every call requests (column count of X at the call) - k columns.
C2_CallBound ==
  (SisLabelled /\ SisEntered) =>
     /\ Len(sis_calls) <=
          CeilDiv(Max(sis_args.m - Val(sis_size), 0), sis_args.increment)
     /\ \A c \in 1..Len(sis_calls) :
          sis_calls[c].size = sis_calls[c].cols - sis_args.increment

\* C8: with l = None do_sis raises nothing and returns None as the labels;
\* it fails only for a supplied label vector whose length differs from X's
\* width, and then before any oracle call.
C8_LabelsOptional ==
  /\ IsNone(sis_args.l) => sis_err \notin {"TypeError", "AssertionError"}
  /\ (IsNone(sis_args.l) /\ sis_pc = "returned") => IsNone(sis_l)
  /\ sis_err \in {"TypeError", "AssertionError"} =>
       /\ ~IsNone(sis_args.l)
       /\ Len(Val(sis_args.l)) # sis_args.m
       /\ sis_calls = << >>

\* ========================================================= fpmatrix_split
\* The rows of self.X are named 1..len(X).  n, s1 and s2 are fractions with
\* the denominator nsplit and are stored as their numerators: the number q
\* is stored as q * nsplit.  Under Python 3, n = len(X) / nsplit is true
\* division; fpm_operations.py does not import division from __future__, so
\* under Python 2 the same line is floor division.  Both are modelled
\* (sp_args.truediv).  Within the bounds used here the float results of
\* Python 3 equal the exact fractions.

\* a draw of len(index) entries with repeats allowed, in place of a shuffle
shuffle_choices(index) ==
  {Take(index, p) : p \in [1..Len(index) -> 1..Len(index)]}

\* random.shuffle(index): every ordering of the entries of index
shuffle(index) ==
  {Take(index, p) : p \in InjSeqs(Len(index), Len(index))}

\* int(q) of a fraction q >= 0 stored as a numerator over nsplit
PyInt(q, nsplit) == q \div nsplit

\* index[a:b] for 0 <= a, 0 <= b (python clips the bounds to the list)
Slice(index, a, b) ==
  LET lo == Min(a, Len(index))
      hi == Max(lo, Min(b, Len(index)))
  IN [i \in 1..(hi - lo) |-> index[lo + i]]

\* the assertion without the factor nsplit
SplitFits_one(len, nsplit, fix_size) == len >= fix_size

\* line 153: the condition of the assertion
SplitFits(len, nsplit, fix_size) == len >= nsplit * fix_size

\* line 161: n = len(self.X) / nsplit, as a numerator over nsplit
ItemsPerSplit(len, nsplit, truediv) ==
  IF truediv THEN len ELSE (len \div nsplit) * nsplit

\* lines 165 and 177: the step added to s2 when fix_size is None
SplitWidth(n, r, nsplit) == n + Min(1, r) * nsplit

\* the slice with its upper bound included
Group_inclusive(index, s1, s2, nsplit) ==
  Slice(index, PyInt(s1, nsplit), PyInt(s2, nsplit) + 1)

\* line 171: index[int(s1):int(s2)], the rows of one group
Group(index, s1, s2, nsplit) ==
  Slice(index, PyInt(s1, nsplit), PyInt(s2, nsplit))

SplitInit ==
  /\ sp_args \in [len : 0..MaxLenX, nsplit : 1..MaxSplit,
                  fix_size : {None} \cup {Some(k) : k \in 0..MaxFix},
                  replacement : BOOLEAN, truediv : BOOLEAN]
  /\ sp_index = << >>
  /\ sp_n = 0 /\ sp_r = 0 /\ sp_s1 = 0 /\ sp_s2 = 0
  /\ sp_dataset = << >>
  /\ sp_pc = "enter"
  /\ sp_shuffles = 0

\* lines 150-167: the assertion, the first shuffle, the first slice bounds
fpmatrix_split_enter ==
  /\ sp_pc = "enter"
  /\ LET len == sp_args.len
         nsplit == sp_args.nsplit
     IN IF /\ ~IsNone(sp_args.fix_size)
           /\ ~SplitFits(len, nsplit, Val(sp_args.fix_size))
          THEN /\ sp_pc' = "raised"
               /\ UNCHANGED << sp_index, sp_n, sp_r, sp_s1, sp_s2,
                               sp_shuffles >>
          ELSE /\ sp_pc' = "loop"
               /\ sp_index' \in shuffle(Iota(len))
               /\ sp_shuffles' = sp_shuffles + 1
               /\ sp_s1' = 0
               /\ IF IsNone(sp_args.fix_size)
                    THEN /\ sp_n' = ItemsPerSplit(len, nsplit, sp_args.truediv)
                         /\ sp_r' = len % nsplit
                         /\ sp_s2' = SplitWidth(sp_n', sp_r', nsplit)
                    ELSE /\ sp_s2' = Val(sp_args.fix_size) * nsplit
                         /\ UNCHANGED << sp_n, sp_r >>
  /\ UNCHANGED << sp_args, sp_dataset >>
  /\ UNCHANGED notSplit

\* lines 168-179: one pass of the for loop
fpmatrix_split_iter ==
  /\ sp_pc = "loop"
  /\ Len(sp_dataset) < sp_args.nsplit
  /\ LET nsplit == sp_args.nsplit
     IN /\ IF sp_args.replacement
             THEN /\ sp_index' \in shuffle(sp_index)
                  /\ sp_shuffles' = sp_shuffles + 1
             ELSE UNCHANGED << sp_index, sp_shuffles >>
        /\ sp_dataset' = Append(sp_dataset,
                                Group(sp_index', sp_s1, sp_s2, nsplit))
        /\ sp_s1' = sp_s2
        /\ IF IsNone(sp_args.fix_size)
             THEN /\ sp_r' = Max(0, sp_r - 1)
                  /\ sp_s2' = sp_s2 + SplitWidth(sp_n, sp_r', nsplit)
             ELSE /\ sp_s2' = sp_s2 + Val(sp_args.fix_size) * nsplit
                  /\ UNCHANGED sp_r
  /\ UNCHANGED << sp_args, sp_n, sp_pc >>
  /\ UNCHANGED notSplit

\* line 180
fpmatrix_split_return ==
  /\ sp_pc = "loop"
  /\ Len(sp_dataset) = sp_args.nsplit
  /\ sp_pc' = "returned"
  /\ UNCHANGED << sp_args, sp_index, sp_n, sp_r, sp_s1, sp_s2, sp_dataset,
                  sp_shuffles >>
  /\ UNCHANGED notSplit

SplitNext ==
  fpmatrix_split_enter \/ fpmatrix_split_iter \/ fpmatrix_split_return

\* -------------------------------------------------- fpmatrix_split claims
RECURSIVE Flatten(_)
Flatten(groups) ==
  IF groups = << >> THEN << >>
  ELSE Head(groups) \o Flatten(Tail(groups))

Range(s) == {s[i] : i \in 1..Len(s)}
NoRepeat(s) == \A i, j \in 1..Len(s) : i # j => s[i] # s[j]

SplitPlain == IsNone(sp_args.fix_size) /\ ~sp_args.replacement

\* C3: with fix_size=None and replacement=False the returned list holds
\* exactly nsplit groups and every row of X is in exactly one of them.
C3_TruePartition ==
  (sp_pc = "returned" /\ SplitPlain) =>
     /\ Len(sp_dataset) = sp_args.nsplit
     /\ Range(Flatten(sp_dataset)) = 1..sp_args.len
     /\ NoRepeat(Flatten(sp_dataset))

\* a returned plain split whose row count is not a multiple of nsplit, and
\* one with more groups than rows
C3_Witness ==
  /\ sp_pc = "returned" /\ SplitPlain
  /\ sp_args.len >= 3 /\ sp_args.len % sp_args.nsplit # 0
  /\ sp_args.nsplit > sp_args.len

\* C4: with fix_size=None the first (len mod nsplit) groups have
\* floor(len/nsplit)+1 rows and the others floor(len/nsplit) rows, so two
\* group sizes differ by at most 1.
C4_BalancedSizes ==
  (sp_pc = "returned" /\ IsNone(sp_args.fix_size)) =>
     \A g \in 1..Len(sp_dataset) :
        Len(sp_dataset[g]) =
          (sp_args.len \div sp_args.nsplit)
            + (IF g <= sp_args.len % sp_args.nsplit THEN 1 ELSE 0)

\* C5: with a fix_size, fpmatrix_split returns nsplit groups of exactly
\* fix_size rows when len(X) >= nsplit * fix_size, with or without
\* replacement, and otherwise fails before shuffling with no group made.
C5_FixedSize ==
  ~IsNone(sp_args.fix_size) =>
     IF sp_args.len >= sp_args.nsplit * Val(sp_args.fix_size)
       THEN /\ sp_pc # "raised"
            /\ sp_pc = "returned" =>
                 /\ Len(sp_dataset) = sp_args.nsplit
                 /\ \A g \in 1..Len(sp_dataset) :
                      Len(sp_dataset[g]) = Val(sp_args.fix_size)
       ELSE /\ sp_pc \in {"enter", "raised"}
            /\ sp_shuffles = 0
            /\ sp_dataset = << >>

\* a returned fixed-size split drawn with replacement that needs every row
\* and draws one row twice
C5_Witness ==
  /\ sp_pc = "returned" /\ sp_args.replacement
  /\ ~IsNone(sp_args.fix_size) /\ Val(sp_args.fix_size) = 1
  /\ sp_args.nsplit = 3 /\ sp_args.len = 3
  /\ sp_dataset[1] = sp_dataset[3]

\* the next group is about to be drawn from a re-shuffled index
SplitDrawing ==
  sp_pc = "loop" /\ Len(sp_dataset) < sp_args.nsplit /\ sp_args.replacement

NextGroup(index) == Group(index, sp_s1, sp_s2, sp_args.nsplit)

ExVals == {2, 3}
ExLabels == {"p", "q"}

ExMatrices ==
  UNION {[1..m -> [1..rows -> ExVals]] :
           m \in 0..MaxFeatures, rows \in 1..MaxExRows}

\* lines 13-14: sum(range(n+1))
RECURSIVE triangular(_)
triangular(n) == IF n <= 0 THEN 0 ELSE n + triangular(n - 1)

RECURSIVE Pow(_, _)
Pow(u, e) == IF e = 0 THEN 1 ELSE u * Pow(u, e - 1)

\* the inner loop of the labels starting past f1
InnerStart_strict(op, f1) ==
  IF op = "get_labels_order_2" THEN f1 + 1 ELSE f1

\* lines 63, 80, 102, 127: the first f2 of `for f2 in range(f1, ...)`
InnerStart(op, f1) ==
  CASE op = "get_order_2" -> f1
    [] op = "get_labels_order_2" -> f1
    [] op = "get_order_2ab" -> f1
    [] op = "get_ablog" -> f1

\* the first (f1, f2) the nested loops reach with the outer variable at or
\* past f1, or None when the outer range is exhausted
RECURSIVE ExFirstPair(_, _, _)
ExFirstPair(op, f1, m) ==
  IF f1 >= m THEN None
  ELSE IF InnerStart(op, f1) < m THEN Some(<< f1, InnerStart(op, f1) >>)
  ELSE ExFirstPair(op, f1 + 1, m)

\* the (f1, f2) the nested loops reach after (f1, f2)
ExNextPair(op, f1, f2, m) ==
  IF f2 + 1 < m THEN Some(<< f1, f2 + 1 >>) ELSE ExFirstPair(op, f1 + 1, m)

\* the number of features: shapeA[1], or L = len(self.x) for the labels
ExM == IF ex_args.op = "get_labels_order_2" THEN Len(ex_args.x)
       ELSE Len(ex_args.A)

ExRows == IF ex_args.A = << >> THEN 1 ELSE Len(ex_args.A[1])

ExpandInit ==
  /\ ex_args \in
       {[op |-> "get_order_2", A |-> A, x |-> << >>, a |-> 0, b |-> 0] :
          A \in ExMatrices}
       \cup {[op |-> "get_labels_order_2", A |-> << >>, x |-> x,
              a |-> 0, b |-> 0] :
               x \in UNION {[1..m -> ExLabels] : m \in 0..MaxFeatures}}
       \cup {[op |-> op, A |-> A, x |-> << >>, a |-> a, b |-> b] :
               op \in {"get_order_2ab", "get_ablog"}, A \in ExMatrices,
               a \in 1..MaxPow, b \in 1..MaxPow}
  /\ ex_f1 = 0 /\ ex_f2 = 0 /\ ex_nfi = 0
  /\ ex_new_features = << >>
  /\ ex_written = << >>
  /\ ex_pc = "enter"

\* the move of the loop variables to a pair, or out of the loops
ExGoto(pair) ==
  IF IsNone(pair)
    THEN ex_pc' = "return" /\ UNCHANGED << ex_f1, ex_f2 >>
    ELSE ex_pc' = "loop" /\ ex_f1' = Val(pair)[1] /\ ex_f2' = Val(pair)[2]

\* lines 59-61, 76-78, 98-100, 123-125: nfi, new_features, the loop heads
expand_enter ==
  /\ ex_pc = "enter"
  /\ ex_nfi' = 0
  /\ ex_new_features' =
       IF ex_args.op = "get_labels_order_2" THEN << >>
       ELSE [k \in 1..triangular(ExM) |->
               [r \in 1..ExRows |->
                  IF ex_args.op = "get_ablog" THEN << 0, 1, 0, 1 >> ELSE 0]]
  /\ ExGoto(ExFirstPair(ex_args.op, 0, ExM))
  /\ UNCHANGED << ex_args, ex_written >>
  /\ UNCHANGED notExpand

\* new_features[:, nfi] = new_feature; nfi += 1; then the next (f1, f2)
ExStore(new_feature) ==
  IF ex_nfi < Len(ex_new_features)
    THEN /\ ex_new_features' =
              [ex_new_features EXCEPT ![ex_nfi + 1] = new_feature]
         /\ ex_written' = Append(ex_written,
                                 [at |-> ex_nfi, pair |-> << ex_f1, ex_f2 >>])
         /\ ex_nfi' = ex_nfi + 1
         /\ ExGoto(ExNextPair(ex_args.op, ex_f1, ex_f2, ExM))
    ELSE \* IndexError
         /\ ex_pc' = "raised"
         /\ UNCHANGED << ex_f1, ex_f2, ex_nfi, ex_new_features, ex_written >>

\* lines 64-66
get_order_2_step ==
  /\ ex_pc = "loop" /\ ex_args.op = "get_order_2"
  /\ ExStore([r \in 1..ExRows |->
                ex_args.A[ex_f1 + 1][r] * ex_args.A[ex_f2 + 1][r]])
  /\ UNCHANGED ex_args
  /\ UNCHANGED notExpand

\* line 81: the list grows by one label; its length is the write index
get_labels_order_2_step ==
  /\ ex_pc = "loop" /\ ex_args.op = "get_labels_order_2"
  /\ ex_new_features' =
       Append(ex_new_features,
              ex_args.x[ex_f1 + 1] \o "_x_" \o ex_args.x[ex_f2 + 1])
  /\ ex_written' = Append(ex_written, [at |-> Len(ex_new_features),
                                       pair |-> << ex_f1, ex_f2 >>])
  /\ ExGoto(ExNextPair(ex_args.op, ex_f1, ex_f2, ExM))
  /\ UNCHANGED << ex_args, ex_nfi >>
  /\ UNCHANGED notExpand

\* lines 103-105
get_order_2ab_step ==
  /\ ex_pc = "loop" /\ ex_args.op = "get_order_2ab"
  /\ ExStore([r \in 1..ExRows |->
                Pow(ex_args.A[ex_f1 + 1][r], ex_args.a)
                  * Pow(ex_args.A[ex_f2 + 1][r], ex_args.b)])
  /\ UNCHANGED ex_args
  /\ UNCHANGED notExpand

\* lines 128-130
get_ablog_step ==
  /\ ex_pc = "loop" /\ ex_args.op = "get_ablog"
  /\ ExStore([r \in 1..ExRows |->
                << ex_args.a, ex_args.A[ex_f1 + 1][r],
                   ex_args.b, ex_args.A[ex_f2 + 1][r] >>])
  /\ UNCHANGED ex_args
  /\ UNCHANGED notExpand

\* lines 67, 82, 106, 131
expand_return ==
  /\ ex_pc = "return"
  /\ ex_pc' = "returned"
  /\ UNCHANGED << ex_args, ex_f1, ex_f2, ex_nfi, ex_new_features,
                  ex_written >>
  /\ UNCHANGED notExpand

ExpandNext ==
  \/ expand_enter \/ get_order_2_step \/ get_labels_order_2_step
  \/ get_order_2ab_step \/ get_ablog_step \/ expand_return

\* ------------------------------------------------------ expansion claims
\* the pairs (i, j) with 0 <= i <= j < m, and their lexicographic order
LexPairs(m) == {p \in (0..(m - 1)) \X (0..(m - 1)) : p[1] <= p[2]}
LexLess(p, q) == p[1] < q[1] \/ (p[1] = q[1] /\ p[2] < q[2])
PairAt(k, m) ==
  CHOOSE p \in LexPairs(m) :
    Cardinality({q \in LexPairs(m) : LexLess(q, p)}) = k

\* what each routine documents as the output built from the pair (i, j)
ExpectedOutput(i, j) ==
  CASE ex_args.op = "get_order_2" ->
         [r \in 1..ExRows |-> ex_args.A[i + 1][r] * ex_args.A[j + 1][r]]
    [] ex_args.op = "get_labels_order_2" ->
         ex_args.x[i + 1] \o "_x_" \o ex_args.x[j + 1]
    [] ex_args.op = "get_order_2ab" ->
         [r \in 1..ExRows |-> Pow(ex_args.A[i + 1][r], ex_args.a)
                                * Pow(ex_args.A[j + 1][r], ex_args.b)]
    [] ex_args.op = "get_ablog" ->
         [r \in 1..ExRows |-> << ex_args.a, ex_args.A[i + 1][r],
                                 ex_args.b, ex_args.A[j + 1][r] >>]

\* C7: each of the four routines produces m(m+1)/2 outputs, output k being
\* built from the k-th pair (i, j) in lexicographic order over
\* 0 <= i <= j < m; the write index stays below m(m+1)/2 and every output
\* is written.
C7_SharedEnumeration ==
  ex_pc # "off" =>
    LET m == ExM
        total == (m * (m + 1)) \div 2
    IN /\ ex_pc # "raised"
       /\ \A w \in 1..Len(ex_written) :
            /\ ex_written[w].at = w - 1
            /\ ex_written[w].at <= total - 1
            /\ ex_written[w].pair = PairAt(w - 1, m)
       /\ ex_pc = "returned" =>
            /\ Len(ex_new_features) = total
            /\ Len(ex_written) = total
            /\ \A k \in 0..(total - 1) :
                 ex_new_features[k + 1] =
                   ExpectedOutput(PairAt(k, m)[1], PairAt(k, m)[2])

\* a returned expansion of three features
C7_Witness ==
  /\ ex_pc = "returned" /\ ExM = 3 /\ Len(ex_new_features) = 6
  /\ ex_args.op = "get_ablog"

\* ============================================ get_combined_descriptors
\* A callable of vec_list is named by a string; CallOut is the vector it
\* returns when invoked.
Callables == {"f", "g", "h"}
CallOut(c) ==
  CASE c = "f" -> << 1 >>
    [] c = "g" -> << 2, 3 >>
    [] c = "h" -> << 4, 5, 6 >>

\* vec_list taken in the order given
Reversed_not(s) == s

\* line 46: vec_list[::-1]
Reversed(s) == [i \in 1..Len(s) |-> s[Len(s) + 1 - i]]

\* line 50: np.hstack of a list of vectors
RECURSIVE hstack(_)
hstack(vs) == IF vs = << >> THEN << >> ELSE Head(vs) \o hstack(Tail(vs))

CombineInit ==
  /\ cd_vec_list \in UNION {[1..n -> Callables] : n \in 0..MaxVecs}
  /\ cd_labels = << >>
  /\ cd_j = 0
  /\ cd_L_F = << >>
  /\ cd_invoked = << >>
  /\ cd_result = << >>
  /\ cd_pc = "enter"

\* lines 43-47
get_combined_descriptors_enter ==
  /\ cd_pc = "enter"
  /\ IF Len(cd_vec_list) >= 2
       THEN /\ cd_labels' = Reversed(cd_vec_list)
            /\ cd_pc' = "loop"
       ELSE /\ cd_pc' = "raised"
            /\ UNCHANGED cd_labels
  /\ cd_j' = 0
  /\ UNCHANGED << cd_vec_list, cd_L_F, cd_invoked, cd_result >>
  /\ UNCHANGED notCombine

\* lines 48-49: one pass of the loop, invoking labels[j]; cd_invoked notes
\* which position of vec_list labels[j] came from
get_combined_descriptors_call ==
  /\ cd_pc = "loop"
  /\ cd_j < Len(cd_labels)
  /\ cd_L_F' = Append(cd_L_F, CallOut(cd_labels[cd_j + 1]))
  /\ cd_invoked' =
       Append(cd_invoked,
              Reversed(Iota(Len(cd_vec_list)))[cd_j + 1])
  /\ cd_j' = cd_j + 1
  /\ UNCHANGED << cd_vec_list, cd_labels, cd_result, cd_pc >>
  /\ UNCHANGED notCombine

\* line 50
get_combined_descriptors_return ==
  /\ cd_pc = "loop"
  /\ ~(cd_j < Len(cd_labels))
  /\ cd_result' = hstack(cd_L_F)
  /\ cd_pc' = "returned"
  /\ UNCHANGED << cd_vec_list, cd_labels, cd_j, cd_L_F, cd_invoked >>
  /\ UNCHANGED notCombine

CombineNext ==
  \/ get_combined_descriptors_enter \/ get_combined_descriptors_call
  \/ get_combined_descriptors_return

\* -------------------------------------- get_combined_descriptors claims
\* the outputs of the callables of vec_list, last entry first
RECURSIVE LastFirst(_)
LastFirst(vs) ==
  IF vs = << >> THEN << >>
  ELSE CallOut(vs[Len(vs)]) \o LastFirst(SubSeq(vs, 1, Len(vs) - 1))

\* C9: with fewer than two entries get_combined_descriptors fails without
\* invoking a callable; otherwise it invokes every entry once, last entry
\* first, and returns the outputs concatenated in that order.
C9_ReverseOrder ==
  cd_pc # "off" =>
    LET n == Len(cd_vec_list)
    IN IF n < 2
         THEN cd_pc \in {"enter", "raised"} /\ cd_invoked = << >>
         ELSE /\ cd_pc # "raised"
              /\ Len(cd_invoked) <= n
              /\ \A k \in 1..Len(cd_invoked) : cd_invoked[k] = n + 1 - k
              /\ cd_pc = "returned" =>
                   /\ Len(cd_invoked) = n
                   /\ cd_result = LastFirst(cd_vec_list)

\* a returned combination of three different callables
C9_Witness ==
  /\ cd_pc = "returned"
  /\ cd_vec_list = << "f", "g", "h" >>
  /\ cd_result = << 4, 5, 6, 2, 3, 1 >>

\* ======================================================= FeatureGenerator
\* A candidate is an atoms object, held as the list of its atomic numbers:
\* a.get_atomic_numbers() is the list and len(a) its length.  A fingerprint
\* generator of vec_names is held as the length of the vector it returns for
\* the cached atom_types and atom_len: "types" returns one entry per atom
\* type, "atoms" one entry per atom up to atom_len.
Candidates == {<< 1, 1 >>, << 8, 1, 1 >>, << 6 >>}
GenLen(g, atom_types, atom_len) ==
  IF g = "types" THEN Len(atom_types) ELSE atom_len

CandidateLists == UNION {[1..n -> Candidates] : n \in 0..MaxCandidates}

\* sorted(list(s)) of a set of integers
RECURSIVE Sorted(_)
Sorted(s) ==
  IF s = {} THEN << >>
  ELSE LET lo == CHOOSE u \in s : \A v \in s : u <= v
       IN << lo >> \o Sorted(s \ {lo})

\* lines 173-175 and 198-200: a copy of the train list, extended by the test
\* list; `caller` is the caller's train list afterwards
Joined(train_candidates, test_candidates) ==
  [all |-> IF IsNone(test_candidates) THEN train_candidates
           ELSE train_candidates \o Val(test_candidates),
   caller |-> train_candidates]

\* lines 176-181: the value stored in self.atom_types
get_atom_types(all) ==
  Sorted(UNION {{all[k][i] : i \in 1..Len(all[k])} : k \in 1..Len(all)})

\* lines 202-207: the value stored in self.atom_len
RECURSIVE get_atom_length(_)
get_atom_length(all) ==
  IF all = << >> THEN 0
  ELSE LET rest == get_atom_length(SubSeq(all, 1, Len(all) - 1))
           last == Len(all[Len(all)])
       IN IF rest < last THEN last ELSE rest

\* a field recomputed on every call
Unset_always(field) == TRUE

\* lines 86 and 89: `self.atom_types is None`, `self.atom_len is None`
Unset(field) == IsNone(field)

\* lines 137-143: the length of the concatenation of every generator's vector
RECURSIVE concatenate_vec(_, _, _)
concatenate_vec(vec_names, atom_types, atom_len) ==
  IF vec_names = << >> THEN 0
  ELSE GenLen(Head(vec_names), atom_types, atom_len)
         + concatenate_vec(Tail(vec_names), atom_types, atom_len)

\* lines 115-118: the length of the row made for one candidate
get_vec(vec_names, atom_types, atom_len) ==
  IF Len(vec_names) = 1 THEN GenLen(vec_names[1], atom_types, atom_len)
  ELSE concatenate_vec(vec_names, atom_types, atom_len)

FeaturesInit ==
  /\ fg_args \in [train : CandidateLists,
                  test : {None} \cup {Some(c) : c \in CandidateLists},
                  atom_types : {None, Some(<< 1 >>)},
                  atom_len : {None, Some(2)},
                  vec_names : {<< "types" >>, << "atoms" >>,
                               << "types", "atoms" >>}]
  /\ fg_atom_types = fg_args.atom_types
  /\ fg_atom_len = fg_args.atom_len
  /\ fg_train = fg_args.train
  /\ fg_test = fg_args.test
  /\ fg_normalized = FALSE
  /\ fg_matrix = [train |-> None, test |-> None]
  /\ fg_err = "none"

\* lines 155-156, with _get_atom_types and _get_atom_length
normalize_features ==
  /\ fg_err # "off"
  /\ LET j1 == Joined(fg_train, fg_test)
         j2 == Joined(j1.caller, fg_test)
     IN /\ fg_atom_types' = Some(get_atom_types(j1.all))
        /\ fg_atom_len' = Some(get_atom_length(j2.all))
        /\ fg_train' = j2.caller
  /\ fg_normalized' = TRUE
  /\ fg_matrix' = [train |-> None, test |-> None]
  /\ fg_err' = "none"
  /\ UNCHANGED << fg_test, fg_args >>
  /\ UNCHANGED notFeatures

\* lines 79-96 for candidates = the train list or the test list
return_vec(which) ==
  /\ fg_err # "off"
  /\ which = "test" => ~IsNone(fg_test)
  /\ LET candidates == IF which = "train" THEN fg_train ELSE Val(fg_test)
         j1 == Joined(candidates, None)
         j2 == Joined(j1.caller, None)
         types == IF Unset(fg_atom_types) THEN Some(get_atom_types(j1.all))
                  ELSE fg_atom_types
         alen == IF Unset(fg_atom_len) THEN Some(get_atom_length(j2.all))
                 ELSE fg_atom_len
         fingerprint_vector ==
           [k \in 1..Len(candidates) |->
              get_vec(fg_args.vec_names, Val(types), Val(alen))]
     IN /\ fg_atom_types' = types
        /\ fg_atom_len' = alen
        /\ IF which = "train"
             THEN fg_train' = j2.caller /\ UNCHANGED fg_test
             ELSE fg_test' = Some(j2.caller) /\ UNCHANGED fg_train
        /\ fg_matrix' =
             [fg_matrix EXCEPT
                ![which] = IF fingerprint_vector = << >> THEN None
                           ELSE Some(fingerprint_vector[1])]
  /\ fg_err' = "none"
  /\ UNCHANGED << fg_args, fg_normalized >>
  /\ UNCHANGED notFeatures

return_vec_train == return_vec("train")
return_vec_test == return_vec("test")

\* lines 79-80: candidates that are neither a list nor a defaultdict
return_vec_TypeError ==
  /\ fg_err # "off"
  /\ fg_err' = "TypeError"
  /\ UNCHANGED << fg_atom_types, fg_atom_len, fg_train, fg_test, fg_args,
                  fg_normalized, fg_matrix >>
  /\ UNCHANGED notFeatures

FeaturesNext ==
  \/ normalize_features \/ return_vec_train \/ return_vec_test
  \/ return_vec_TypeError

\* ---------------------------------------------- FeatureGenerator claims
FgBoth ==
  IF IsNone(fg_args.test) THEN fg_args.train
  ELSE fg_args.train \o Val(fg_args.test)

Increasing(s) == \A i, j \in 1..Len(s) : i < j => s[i] < s[j]

\* C6: after normalize_features(train, test), atom_types is the sorted set
\* of the atomic numbers of train and test and atom_len the largest atom
\* count among them (train alone when test is None); return_vec calls on
\* train and on test, in any order, leave both as they are, so the matrices
\* they make have one column count; the caller's lists are not modified.
C6_WidthConsistency ==
  fg_err # "off" =>
    /\ fg_train = fg_args.train
    /\ fg_test = fg_args.test
    /\ fg_normalized =>
         /\ ~IsNone(fg_atom_types) /\ ~IsNone(fg_atom_len)
         /\ Increasing(Val(fg_atom_types))
         /\ Range(Val(fg_atom_types)) =
              UNION {Range(FgBoth[k]) : k \in 1..Len(FgBoth)}
         /\ \A k \in 1..Len(FgBoth) : Len(FgBoth[k]) <= Val(fg_atom_len)
         /\ \/ \E k \in 1..Len(FgBoth) : Len(FgBoth[k]) = Val(fg_atom_len)
            \/ FgBoth = << >> /\ Val(fg_atom_len) = 0
         /\ (~IsNone(fg_matrix.train) /\ ~IsNone(fg_matrix.test)) =>
              fg_matrix.train = fg_matrix.test

\* matrices of train and of test made after a normalization, for lists whose
\* own atom types and own largest atom counts differ
C6_Witness ==
  /\ fg_err = "none" /\ fg_normalized
  /\ ~IsNone(fg_matrix.train) /\ ~IsNone(fg_matrix.test)
  /\ fg_args.train = << << 1, 1 >> >>
  /\ fg_args.test = Some(<< << 8, 1, 1 >>, << 6 >> >>)
  /\ fg_args.vec_names = << "types", "atoms" >>
  /\ fg_matrix.train = Some(6)

\* ========================================================== specifications
InitSis == SisInit /\ SplitOff /\ ExpandOff /\ FeaturesOff /\ CombineOff
SpecSis == InitSis /\ [][SisNext]_vars

InitSplit == SplitInit /\ SisOff /\ ExpandOff /\ FeaturesOff /\ CombineOff
SpecSplit == InitSplit /\ [][SplitNext]_vars

InitExpand == ExpandInit /\ SisOff /\ SplitOff /\ FeaturesOff /\ CombineOff
SpecExpand == InitExpand /\ [][ExpandNext]_vars

InitCombine == CombineInit /\ SisOff /\ SplitOff /\ ExpandOff /\ FeaturesOff
SpecCombine == InitCombine /\ [][CombineNext]_vars

InitFeatures == FeaturesInit /\ SisOff /\ SplitOff /\ ExpandOff /\ CombineOff
SpecFeatures == InitFeatures /\ [][FeaturesNext]_vars

====
